---- MODULE Spec2Model ----
(***************************************************************************)
(* A model of the numerical core of fastrank: the ranking order of         *)
(* RankedInstance, the dense dataset (TypedArrayRef, DenseDataset), the    *)
(* evaluators (ReciprocalRank, NDCG, AveragePrecision), the judgment file  *)
(* reader (qrel::read_file) and the error table of the C interface.        *)
(*                                                                         *)
(* Numbers.  Scores, gains and array elements are drawn from small sets of *)
(* integers: every value used is a float the code represents exactly, and  *)
(* NotNan<_> compares such values as the integers compare.  usize keeps a  *)
(* width (UsizeBits, scaled down from 64) so that num_instances *          *)
(* num_features wraps as it does in the code.                              *)
(***************************************************************************)
EXTENDS Integers, Sequences, FiniteSets, TLC

VARIABLES
    ranked,      \* a query's RankedInstances, as produced by scoring
    sorted,      \* the same instances after the sort ("unsorted" before)
    compared,    \* the last comparison of two RankedInstances, with its results
    build,       \* the build profile: TRUE iff overflow checks are on (debug)
    args,        \* the arguments of DenseDataset::try_new
    outcome,     \* how try_new ended: "none" | "Ok" | "Err" | "Panic"
    ds,          \* the DenseDataset try_new returned
    op,          \* the last lookup made on ds, with its result
    dataset,     \* the RankingDataset an evaluator is built from
    judgments,   \* the Option<QuerySetJudgments> an evaluator is built from
    depth_arg,   \* the depth given to NDCG::new
    evaluator,   \* the evaluator built ("none" before)
    call,        \* the last call of Evaluator::score, with its result
    path,        \* the path given to qrel::read_file
    lines,       \* the judgment file's lines, each split at whitespace
    read,        \* what read_file returned ("none" before)
    ERROR_ID,    \* the static AtomicIsize the error ids come from
    ERRORS,      \* the static Mutex<HashMap<isize, String>>
    pc,          \* each thread's position in store_err
    frame,       \* each thread's locals in store_err: the error and its id
    issued,      \* history: the ids next_error_id has returned, in order
    stored,      \* history: the message store_err inserted under each id
    fetches      \* history: the calls of fetch_err, with their results

vars == <<ranked, sorted, compared, build, args, outcome, ds, op,
          dataset, judgments, depth_arg, evaluator, call,
          path, lines, read,
          ERROR_ID, ERRORS, pc, frame, issued, stored, fetches>>

ordVars == <<ranked, sorted, compared>>
dsVars  == <<build, args, outcome, ds, op>>
evVars  == <<dataset, judgments, depth_arg, evaluator, call>>
qrelVars == <<path, lines, read>>
errVars == <<ERROR_ID, ERRORS, pc, frame, issued, stored, fetches>>

(***************************************************************************)
(* Bounds                                                                  *)
(***************************************************************************)
MaxRanked == 3
MaxInstances == 2
MaxFeatures == 2
MaxRows == 2
MaxList == 3
MaxDepth == 2
MaxLines == 2
MaxErrors == 2
MaxFetches == 3

(***************************************************************************)
(* Option<T> and Result<T, E>                                              *)
(***************************************************************************)
None == [some |-> FALSE]
Some(v) == [some |-> TRUE, val |-> v]
Panic == [tag |-> "Panic"]
Ok(v) == [tag |-> "Ok", val |-> v]
Err(m) == [tag |-> "Err", msg |-> m]

(***************************************************************************)
(* RankedInstance and its order (evaluators.rs)                            *)
(***************************************************************************)
Scores == {1, 3}
Gains01 == {0, 1}
Identifiers == {10, 11, 12}

RankedInstance == [score : Scores, gain : Gains01, identifier : Identifiers]

\* Ord::cmp of two numbers that are not NaN
NumCmp(x, y) == IF x < y THEN "Less" ELSE IF x > y THEN "Greater" ELSE "Equal"

cmp_gain_descending(self, other) ==
    LET c1 == NumCmp(other.score, self.score) IN
    IF c1 # "Equal" THEN c1
    ELSE LET c2 == NumCmp(other.gain, self.gain) IN
         IF c2 # "Equal" THEN c2
         ELSE NumCmp(self.identifier, other.identifier)

\* impl Ord for RankedInstance
cmp(self, other) ==
    LET c1 == NumCmp(other.score, self.score) IN
    IF c1 # "Equal" THEN c1
    ELSE LET c2 == NumCmp(self.gain, other.gain) IN
         IF c2 # "Equal" THEN c2
         ELSE NumCmp(self.identifier, other.identifier)

\* #[derive(PartialOrd)]: the fields compared in declaration order (score,
\* gain, identifier), each by its own partial_cmp, the first that is not
\* Equal deciding
partial_cmp(self, other) ==
    LET c1 == NumCmp(self.score, other.score) IN
    IF c1 # "Equal" THEN Some(c1)
    ELSE LET c2 == NumCmp(self.gain, other.gain) IN
         IF c2 # "Equal" THEN Some(c2)
         ELSE Some(NumCmp(self.identifier, other.identifier))

\* PartialOrd::lt, the operator <
lt(self, other) == partial_cmp(self, other) = Some("Less")

\* One step of the sort: x put before the first element it is Less than.
RECURSIVE InsertBy(_, _)
InsertBy(x, s) ==
    IF s = <<>> THEN <<x>>
    ELSE IF cmp(x, Head(s)) = "Less" THEN <<x>> \o s
    ELSE <<Head(s)>> \o InsertBy(x, Tail(s))

\* Vec<RankedInstance>::sort(), which orders by Ord::cmp
RECURSIVE SortRanked(_)
SortRanked(s) ==
    IF s = <<>> THEN <<>> ELSE InsertBy(Head(s), SortRanked(Tail(s)))

NoCompare == [lhs |-> 0]

OrdIdle == ranked = <<>> /\ sorted = "unsorted" /\ compared = NoCompare

OrdInit ==
    /\ ranked \in [1..MaxRanked -> RankedInstance]
    /\ sorted = "unsorted"
    /\ compared = NoCompare

Sort ==
    /\ sorted = "unsorted"
    /\ ranked # <<>>
    /\ sorted' = SortRanked(ranked)
    /\ UNCHANGED <<ranked, compared, dsVars, evVars,
                 qrelVars, errVars>>

\* two RankedInstances compared both ways: by the derived PartialOrd and by Ord
ComparedInit ==
    /\ ranked \in [1..2 -> RankedInstance]
    /\ sorted = "unsorted"
    /\ compared = NoCompare

Compare ==
    /\ compared = NoCompare
    /\ \E i \in DOMAIN ranked, j \in DOMAIN ranked :
         compared' = [lhs |-> i, rhs |-> j,
                      partial_cmp |-> partial_cmp(ranked[i], ranked[j]),
                      lt |-> lt(ranked[i], ranked[j]),
                      cmp |-> cmp(ranked[i], ranked[j])]
    /\ UNCHANGED <<ranked, sorted, dsVars, evVars, qrelVars, errVars>>

(***************************************************************************)
(* TypedArrayRef (dense_dataset.rs)                                        *)
(***************************************************************************)
UsizeBits == 3
UsizeMod == 2 ^ UsizeBits

Kinds == {"DenseI32", "DenseI64", "DenseF32", "DenseF64"}

TypedArrayRef(kind, data) == [kind |-> kind, data |-> data]

ArrLen(arr) == Len(arr.data)

\* slice::get with a 0-based index
SliceGet(data, index) ==
    IF index >= 0 /\ index < Len(data) THEN Some(data[index + 1]) ELSE None

get_i64(arr, index) ==
    IF arr.kind \in {"DenseI32", "DenseI64"} THEN SliceGet(arr.data, index) ELSE None

get_f64(arr, index) == SliceGet(arr.data, index)

\* a * b in usize: panics with overflow checks on, wraps with them off
MulUsize(a, b, checks) ==
    IF a * b >= UsizeMod
    THEN (IF checks THEN Panic ELSE Ok((a * b) % UsizeMod))
    ELSE Ok(a * b)

AddUsize(a, b, checks) ==
    IF a + b >= UsizeMod
    THEN (IF checks THEN Panic ELSE Ok((a + b) % UsizeMod))
    ELSE Ok(a + b)

\* the loop of dot: sum += w * x over the zip of arr[start..] and weights,
\* which ends with the shorter of the two
RECURSIVE DotLoop(_, _, _, _)
DotLoop(data, weights, start, k) ==
    IF start + k >= Len(data) \/ k >= Len(weights) THEN 0
    ELSE data[start + k + 1] * weights[k + 1] + DotLoop(data, weights, start, k + 1)

\* TypedArrayRef::dot; the integer arms are todo!(), and arr[start..] panics
\* when start is past the end
dot(arr, weights, start) ==
    IF arr.kind \in {"DenseI32", "DenseI64"} THEN Panic
    ELSE IF start > Len(arr.data) THEN Panic
    ELSE Ok(DotLoop(arr.data, weights, start, 0))

(***************************************************************************)
(* DenseDataset::try_new                                                   *)
(***************************************************************************)
\* The loop of lines 117-120: the decimal string of each distinct numeric id.
RECURSIVE ComputeQidStrings(_, _, _, _)
ComputeQidStrings(qids, id, num_instances, computed) ==
    IF id >= num_instances THEN Ok(computed)
    ELSE LET got == get_i64(qids, id) IN
         IF ~got.some THEN Panic
         ELSE LET qid == got.val IN
              ComputeQidStrings(qids, id + 1, num_instances,
                  IF qid \in DOMAIN computed THEN computed
                  ELSE computed @@ (qid :> ToString(qid)))

try_new(num_instances, num_features, xs, ys, qids, qid_strs, checks) ==
    IF ArrLen(ys) # num_instances THEN Err("Bad y-length")
    ELSE IF ArrLen(qids) # num_instances THEN Err("Bad qids-length")
    ELSE LET prod == MulUsize(num_instances, num_features, checks) IN
         IF prod.tag = "Panic" THEN Panic
         ELSE IF ArrLen(xs) # prod.val THEN Err("Bad xs-length")
         ELSE LET qid_strings ==
                      IF qid_strs.some THEN Ok(qid_strs.val)
                      ELSE ComputeQidStrings(qids, 0, num_instances, <<>>)
              IN IF qid_strings.tag = "Panic" THEN Panic
                 ELSE Ok([num_instances |-> num_instances,
                          num_features |-> num_features,
                          xs |-> xs, ys |-> ys, qids |-> qids,
                          qid_strings |-> qid_strings.val])

(***************************************************************************)
(* impl RankingDataset for DenseDataset                                    *)
(***************************************************************************)
query_id(self, id) ==
    LET got == get_i64(self.qids, id) IN
    IF ~got.some THEN Panic
    ELSE IF got.val \notin DOMAIN self.qid_strings THEN Panic
    ELSE Ok(self.qid_strings[got.val])

RECURSIVE GroupLoop(_, _, _)
GroupLoop(self, i, ref_map) ==
    IF i >= ArrLen(self.qids) THEN Ok(ref_map)
    ELSE LET got == get_i64(self.qids, i) IN
         IF ~got.some THEN Panic
         ELSE IF got.val \notin DOMAIN self.qid_strings THEN Panic
         ELSE LET qid_str == self.qid_strings[got.val] IN
              GroupLoop(self, i + 1,
                  IF qid_str \in DOMAIN ref_map
                  THEN [ref_map EXCEPT ![qid_str] = Append(@, i)]
                  ELSE ref_map @@ (qid_str :> <<i>>))

instances_by_query(self) == GroupLoop(self, 0, <<>>)

get_feature_value(self, instance, fid, checks) ==
    LET row == MulUsize(self.num_features, instance, checks) IN
    IF row.tag = "Panic" THEN Panic
    ELSE LET index == AddUsize(row.val, fid, checks) IN
         IF index.tag = "Panic" THEN Panic
         ELSE Ok(get_f64(self.xs, index.val))

\* DenseDatasetInstance::dotp, for the instance id of the dataset self
dotp(self, id, weights, checks) ==
    LET start == MulUsize(id, self.num_features, checks) IN
    IF start.tag = "Panic" THEN Panic
    ELSE dot(self.xs, weights, start.val)

(***************************************************************************)
(* The dataset's inputs and operations                                     *)
(***************************************************************************)
QidVals == {1, 2}
QidNames == {"a", "b"}
XsKinds == {"DenseF64", "DenseI32"}
QidKinds == {"DenseI32", "DenseI64", "DenseF64"}
Weights == {1, 2}

\* the feature counts tried: the small ones, and one whose product wraps
FeatureCounts == (0..MaxFeatures) \cup {UsizeMod \div 2}

SeqsUpTo(S, n) == UNION {[1..k -> S] : k \in 0..n}

\* a buffer of n elements, element k holding k (its own 1-based offset)
Ramp(n) == [k \in 1..n |-> k]

QidStrMaps == UNION {[S -> QidNames] : S \in SUBSET QidVals}
QidStrArgs == {None} \cup {Some(m) : m \in QidStrMaps}

NoArgs == [num_instances |-> 0]
NoDataset == [num_instances |-> 0, none |-> TRUE]
NoOp == [name |-> "none"]

DsIdle ==
    /\ build = FALSE /\ args = NoArgs /\ outcome = "none"
    /\ ds = NoDataset /\ op = NoOp

DsInit ==
    /\ build \in BOOLEAN
    /\ args = NoArgs /\ outcome = "none" /\ ds = NoDataset /\ op = NoOp

TryNewFrom(counts) ==
    /\ outcome = "none"
    /\ \E n \in 0..MaxInstances, d \in counts,
          xk \in XsKinds, xl \in 0..(MaxInstances * MaxFeatures),
          yl \in 0..(MaxInstances + 1),
          qk \in QidKinds, qd \in SeqsUpTo(QidVals, MaxInstances),
          strs \in QidStrArgs :
         LET a == [num_instances |-> n, num_features |-> d,
                   xs |-> TypedArrayRef(xk, Ramp(xl)),
                   ys |-> TypedArrayRef("DenseF32", [k \in 1..yl |-> 0]),
                   qids |-> TypedArrayRef(qk, qd),
                   qid_strs |-> strs]
             r == try_new(a.num_instances, a.num_features, a.xs, a.ys, a.qids,
                          a.qid_strs, build)
         IN /\ args' = a
            /\ outcome' = r.tag
            /\ ds' = IF r.tag = "Ok" THEN r.val ELSE NoDataset
    /\ UNCHANGED <<build, op, ordVars, evVars,
                 qrelVars, errVars>>

\* try_new on shapes whose product fits usize
TryNew == TryNewFrom(0..MaxFeatures)

\* try_new on every shape, the wrapping one included
TryNewAnyShape == TryNewFrom(FeatureCounts)

QueryId ==
    /\ outcome = "Ok"
    /\ \E i \in 0..(MaxInstances - 1) :
         /\ i < ds.num_instances
         /\ op' = [name |-> "query_id", instance |-> i, result |-> query_id(ds, i)]
    /\ UNCHANGED <<build, args, outcome, ds, ordVars, evVars,
                 qrelVars, errVars>>

InstancesByQuery ==
    /\ outcome = "Ok"
    /\ op' = [name |-> "instances_by_query", result |-> instances_by_query(ds)]
    /\ UNCHANGED <<build, args, outcome, ds, ordVars, evVars,
                 qrelVars, errVars>>

GetFeatureValue ==
    /\ outcome = "Ok"
    /\ \E i \in 0..MaxInstances, f \in 0..(MaxFeatures + 1) :
         op' = [name |-> "get_feature_value", instance |-> i, feature |-> f,
                result |-> get_feature_value(ds, i, f, build)]
    /\ UNCHANGED <<build, args, outcome, ds, ordVars, evVars,
                 qrelVars, errVars>>

\* the feature-read view of an instance of the dataset, and its dotp
Dotp ==
    /\ outcome = "Ok"
    /\ \E i \in 0..(MaxInstances - 1), w \in SeqsUpTo(Weights, MaxFeatures + 1) :
         /\ i < ds.num_instances
         /\ op' = [name |-> "dotp", instance |-> i, weights |-> w,
                   result |-> dotp(ds, i, w, build)]
    /\ UNCHANGED <<build, args, outcome, ds, ordVars, evVars,
                   qrelVars, errVars>>

(***************************************************************************)
(* Evaluators (evaluators.rs).                                             *)
(*                                                                         *)
(* An f64 result is kept as the operation that produced it: the literal    *)
(* 0.0, or a division with its two operands.  A DCG is in units of 1e-4    *)
(* (DiscountE4), a sum of precisions in units of 1 / ScoreScale.           *)
(***************************************************************************)
Gains == {0, 1, 2}
DsQueries == {"q1", "q2"}
JudgedQueries == {"q1"}
EvalQueries == {"q1", "q2"}
RRQueries == {"q1", "q2", "q3"}
DocIds == {"d1", "d2"}

Zero == [kind |-> "zero"]
Div(n, d) == [kind |-> "div", num |-> n, den |-> d]

\* RankedInstance::is_relevant
is_relevant(ri) == ri.gain > 0

\* Iterator::enumerate over a slice: pairs <<0-based index, element>>
Enumerate(s) == [i \in 1..Len(s) |-> <<i - 1, s[i]>>]

IsRelevantPair(p) == p[2]
IsPositive(g) == g > 0

\* the pairs (rank - 1, true) of the relevant instances, in ranked order
RelevantPairs(ranked_list) ==
    SelectSeq(Enumerate([i \in 1..Len(ranked_list) |-> is_relevant(ranked_list[i])]),
              IsRelevantPair)

RR_score_zero_based(qid, ranked_list) ==
    LET rels == RelevantPairs(ranked_list) IN
    IF rels = <<>> THEN Zero ELSE Div(1, rels[1][1])

\* ReciprocalRank::score
RR_score(qid, ranked_list) ==
    LET rels == RelevantPairs(ranked_list) IN
    IF rels = <<>> THEN Zero ELSE Div(1, rels[1][1] + 1)

\* 1 / log2(i + 2) for i = 0, 1, ..., in units of 1e-4
DiscountE4 == <<10000, 6309, 5000, 4307, 3869, 3562, 3333, 3155>>

RECURSIVE DcgLoop(_, _, _, _)
DcgLoop(gains, depth, i, dcg) ==
    IF i >= depth \/ i >= Len(gains) THEN dcg
    ELSE DcgLoop(gains, depth, i + 1,
                 dcg + ((2 ^ gains[i + 1]) - 1) * DiscountE4[i + 1])

compute_dcg(gains, depth) == DcgLoop(gains, depth, 0, 0)

\* sort_unstable_by(|lhs, rhs| rhs.cmp(lhs)): descending
RECURSIVE InsertDesc(_, _)
InsertDesc(x, s) ==
    IF s = <<>> THEN <<x>>
    ELSE IF x >= Head(s) THEN <<x>> \o s
    ELSE <<Head(s)>> \o InsertDesc(x, Tail(s))

RECURSIVE SortDesc(_)
SortDesc(s) == IF s = <<>> THEN <<>> ELSE InsertDesc(Head(s), SortDesc(Tail(s)))

\* QueryJudgments::gain_vector: every judged gain of the query
RECURSIVE ValuesOf(_, _)
ValuesOf(f, S) ==
    IF S = {} THEN <<>>
    ELSE LET d == CHOOSE x \in S : TRUE IN <<f[d]>> \o ValuesOf(f, S \ {d})

gain_vector(data) == ValuesOf(data, DOMAIN data)

\* QueryJudgments::num_relevant
num_relevant(data) == Cardinality({d \in DOMAIN data : data[d] > 0})

\* QuerySetJudgments::get under Option::and_then
JudgmentsGet(j, qid) ==
    IF j.some /\ qid \in DOMAIN j.val THEN Some(j.val[qid]) ELSE None

\* the gains of the dataset's rows instance_ids
RowGains(ds0, instance_ids) ==
    [k \in 1..Len(instance_ids) |-> ds0.instances[instance_ids[k] + 1].gain]

IdealGains(ds0, j, qid) ==
    LET all_gains == JudgmentsGet(j, qid) IN
    SortDesc(IF all_gains.some THEN gain_vector(all_gains.val)
             ELSE SelectSeq(RowGains(ds0, ds0.data_by_query[qid]), IsPositive))

NDCG_new_no_empty_check(depth0, ds0, j) ==
    [name |-> "NDCG", depth |-> depth0,
     ideal_gains |-> [qid \in DOMAIN ds0.data_by_query |->
                         Some(compute_dcg(IdealGains(ds0, j, qid), depth0))]]

\* NDCG::new
NDCG_new(depth0, ds0, j) ==
    [name |-> "NDCG", depth |-> depth0,
     ideal_gains |-> [qid \in DOMAIN ds0.data_by_query |->
                         LET ideal_gains == IdealGains(ds0, j, qid) IN
                         IF ideal_gains = <<>> THEN None
                         ELSE Some(compute_dcg(ideal_gains, depth0))]]

ActualGainVector(ranked_list) ==
    SelectSeq([i \in 1..Len(ranked_list) |-> ranked_list[i].gain], IsPositive)

NDCG_score_unfiltered(self, qid, ranked_list) ==
    LET actual_gain_vector == [i \in 1..Len(ranked_list) |-> ranked_list[i].gain]
        normalizer ==
            IF qid \in DOMAIN self.ideal_gains THEN self.ideal_gains[qid]
            ELSE LET gain_vector0 == SortDesc(actual_gain_vector) IN
                 IF gain_vector0 = <<>> THEN None
                 ELSE Some(compute_dcg(gain_vector0, self.depth))
    IN IF normalizer.some
       THEN Div(compute_dcg(actual_gain_vector, self.depth), normalizer.val)
       ELSE Zero

\* NDCG::score
NDCG_score(self, qid, ranked_list) ==
    LET actual_gain_vector == ActualGainVector(ranked_list)
        normalizer ==
            IF qid \in DOMAIN self.ideal_gains THEN self.ideal_gains[qid]
            ELSE LET gain_vector0 == SortDesc(actual_gain_vector) IN
                 IF gain_vector0 = <<>> THEN None
                 ELSE Some(compute_dcg(gain_vector0, self.depth))
    IN IF normalizer.some
       THEN Div(compute_dcg(actual_gain_vector, self.depth), normalizer.val)
       ELSE Zero

RelevantRows(ds0, instance_ids) ==
    Cardinality({k \in 1..Len(instance_ids) :
                    is_relevant(ds0.instances[instance_ids[k] + 1])})

\* the num_relevant AveragePrecision::new computes for a query of the dataset
NewNumRelevant(ds0, j, qid) ==
    LET param_num_relevant == JudgmentsGet(j, qid) IN
    IF param_num_relevant.some THEN num_relevant(param_num_relevant.val)
    ELSE RelevantRows(ds0, ds0.data_by_query[qid])

\* AveragePrecision::new
AP_new(ds0, j) ==
    [name |-> "AP",
     query_norms |->
        [qid \in {q \in DOMAIN ds0.data_by_query : NewNumRelevant(ds0, j, q) > 0} |->
            NewNumRelevant(ds0, j, qid)]]

\* lcm(1, ..., MaxList): every 1 / rank is a whole number of 1 / ScoreScale
RECURSIVE Gcd(_, _)
Gcd(a, b) == IF b = 0 THEN a ELSE Gcd(b, a % b)

RECURSIVE LcmUpTo(_)
LcmUpTo(n) == IF n <= 1 THEN 1 ELSE (LcmUpTo(n - 1) * n) \div Gcd(LcmUpTo(n - 1), n)

ScoreScale == LcmUpTo(MaxList)

\* the loop of lines 206-217 over the ranks of the relevant instances
RECURSIVE PrecisionLoop(_, _, _, _)
PrecisionLoop(rels, k, recall_points, sum_precision) ==
    IF k > Len(rels) THEN sum_precision
    ELSE LET rank == rels[k][1] + 1 IN
         PrecisionLoop(rels, k + 1, recall_points + 1,
                       sum_precision + (recall_points + 1) * (ScoreScale \div rank))

AP_score_list_norm(self, qid, ranked_list) ==
    LET n == Len(RelevantPairs(ranked_list))
    IN IF n = 0 THEN Zero
       ELSE Div(PrecisionLoop(RelevantPairs(ranked_list), 1, 0, 0), n)

\* AveragePrecision::score
AP_score(self, qid, ranked_list) ==
    LET n == IF qid \in DOMAIN self.query_norms THEN self.query_norms[qid]
             ELSE Len(RelevantPairs(ranked_list))
    IN IF n = 0 THEN Zero
       ELSE Div(PrecisionLoop(RelevantPairs(ranked_list), 1, 0, 0), n)

(***************************************************************************)
(* The evaluators' inputs and operations                                   *)
(***************************************************************************)
\* the 0-based indices of the rows of query q, ascending
RECURSIVE IndicesOf(_, _, _)
IndicesOf(instances, q, i) ==
    IF i > Len(instances) THEN <<>>
    ELSE (IF instances[i].qid = q THEN <<i - 1>> ELSE <<>>)
         \o IndicesOf(instances, q, i + 1)

\* a RankingDataset: its rows and their grouping by query
MkDataset(instances) ==
    [instances |-> instances,
     data_by_query |-> [q \in {instances[i].qid : i \in DOMAIN instances} |->
                           IndicesOf(instances, q, 1)]]

EvalDatasets ==
    {MkDataset(rows) : rows \in SeqsUpTo([qid : DsQueries, gain : Gains], MaxRows)}

QueryJudgments == UNION {[D -> Gains] : D \in SUBSET DocIds}
QuerySetJudgments == UNION {[Q -> QueryJudgments] : Q \in SUBSET JudgedQueries}
JudgmentArgs == {None} \cup {Some(j) : j \in QuerySetJudgments}

\* a ranked list with the gains gs: scores descend, so it is in ranking order
RankedList(gs) ==
    [i \in 1..Len(gs) |-> [score |-> Len(gs) - i, gain |-> gs[i], identifier |-> i - 1]]

RankedLists == {RankedList(gs) : gs \in SeqsUpTo(Gains, MaxList)}

\* score takes &self and changes nothing, so one call is recorded per behaviour
NoEvaluator == [name |-> "none"]
NoCall == [metric |-> "none"]

EvIdle ==
    /\ dataset = MkDataset(<<>>) /\ judgments = None /\ depth_arg = 0
    /\ evaluator = NoEvaluator /\ call = NoCall

NDCGInit ==
    /\ dataset \in EvalDatasets
    /\ judgments \in JudgmentArgs
    /\ depth_arg \in 0..MaxDepth
    /\ evaluator = NoEvaluator /\ call = NoCall

APInit ==
    /\ dataset \in EvalDatasets
    /\ judgments \in JudgmentArgs
    /\ depth_arg = 0
    /\ evaluator = NoEvaluator /\ call = NoCall

NewNDCG ==
    /\ evaluator = NoEvaluator
    /\ evaluator' = NDCG_new(depth_arg, dataset, judgments)
    /\ UNCHANGED <<dataset, judgments, depth_arg, call, ordVars, dsVars,
                 qrelVars, errVars>>

ScoreNDCG ==
    /\ evaluator.name = "NDCG"
    /\ call = NoCall
    /\ \E qid \in EvalQueries, ranked_list \in RankedLists :
         call' = [metric |-> "NDCG", qid |-> qid, ranked_list |-> ranked_list,
                  result |-> NDCG_score(evaluator, qid, ranked_list)]
    /\ UNCHANGED <<dataset, judgments, depth_arg, evaluator, ordVars, dsVars,
                 qrelVars, errVars>>

NewAP ==
    /\ evaluator = NoEvaluator
    /\ evaluator' = AP_new(dataset, judgments)
    /\ UNCHANGED <<dataset, judgments, depth_arg, call, ordVars, dsVars,
                 qrelVars, errVars>>

ScoreAP ==
    /\ evaluator.name = "AP"
    /\ call = NoCall
    /\ \E qid \in EvalQueries, ranked_list \in RankedLists :
         call' = [metric |-> "AP", qid |-> qid, ranked_list |-> ranked_list,
                  result |-> AP_score(evaluator, qid, ranked_list)]
    /\ UNCHANGED <<dataset, judgments, depth_arg, evaluator, ordVars, dsVars,
                 qrelVars, errVars>>

\* ReciprocalRank is a unit struct: there is nothing to build
ScoreRR ==
    /\ call = NoCall
    /\ \E qid \in RRQueries, ranked_list \in RankedLists :
         call' = [metric |-> "RR", qid |-> qid, ranked_list |-> ranked_list,
                  result |-> RR_score(qid, ranked_list)]
    /\ UNCHANGED <<dataset, judgments, depth_arg, evaluator, ordVars, dsVars,
                 qrelVars, errVars>>
(***************************************************************************)
(* Judgment files (qrel.rs).                                               *)
(*                                                                         *)
(* A file is the sequence of its lines, a line the sequence of the tokens  *)
(* split_whitespace gives (the empty sequence for a blank line).  The      *)
(* relevance column is text, and str::parse turns it into an f32 or fails. *)
(***************************************************************************)
FilePaths == {"a.qrel", "b.qrel"}
QrelQueries == {"q1", "q2"}
RelTokens == {"0", "1", "-1", "NaN", "x"}

\* the f32 each numeric token parses to
Numerals == ("0" :> 0) @@ ("1" :> 1) @@ ("-1" :> -1)

\* str::parse::<f32>: a number, the NaN of the text "NaN", or a parse error
parse_f32(tok) ==
    IF tok \in DOMAIN Numerals THEN Ok([nan |-> FALSE, val |-> Numerals[tok]])
    ELSE IF tok = "NaN" THEN Ok([nan |-> TRUE])
    ELSE Err("ParseFloatError")

\* NotNan::new
NotNan_new(x) == IF x.nan THEN Err("FloatIsNan") ELSE Ok(x.val)

\* output.entry(qid).or_insert_with(HashMap::new).insert(docid, gain)
InsertJudgment(output, qid, docid, gain) ==
    LET old == IF qid \in DOMAIN output THEN output[qid] ELSE <<>>
        new == [d \in (DOMAIN old) \cup {docid} |->
                   IF d = docid THEN gain ELSE old[d]]
    IN [q \in (DOMAIN output) \cup {qid} |-> IF q = qid THEN new ELSE output[q]]

\* the loop of read_file, entered with num lines already read
RECURSIVE ReadLoop(_, _, _, _)
ReadLoop(p, ls, num0, output) ==
    LET num == num0 + 1 IN
    IF num > Len(ls) THEN Ok(output)
    ELSE LET row == ls[num] IN
         IF Len(row) < 4 THEN Panic
         ELSE LET parsed == parse_f32(row[4]) IN
              IF parsed.tag = "Err"
              THEN Err([path |-> p, line |-> num,
                        text |-> "Invalid relevance judgment", token |-> row[4]])
              ELSE LET gain == NotNan_new(parsed.val) IN
                   IF gain.tag = "Err"
                   THEN Err([path |-> p, line |-> num,
                             text |-> "NaN relevance judgment."])
                   ELSE ReadLoop(p, ls, num,
                                 InsertJudgment(output, row[1], row[3], gain.val))

\* qrel::read_file on a file that opens and reads
read_file(p, ls) == ReadLoop(p, ls, 0, <<>>)

\* the lines tried: four columns, five columns, and fewer than four
FullRows == {<<q, "0", d, t>> : q \in QrelQueries, d \in DocIds, t \in RelTokens}
LongRows == {<<"q1", "0", "d1", "1", "extra">>}
ShortRows == {<<>>, <<"q1">>, <<"q1", "0", "d1">>}
Rows == FullRows \cup LongRows \cup ShortRows

NoRead == [tag |-> "none"]

QrelIdle == path = "" /\ lines = <<>> /\ read = NoRead

QrelInit ==
    /\ path \in FilePaths
    /\ lines \in SeqsUpTo(Rows, MaxLines)
    /\ read = NoRead

ReadFile ==
    /\ read = NoRead
    /\ read' = read_file(path, lines)
    /\ UNCHANGED <<path, lines, ordVars, dsVars, evVars, errVars>>


(***************************************************************************)
(* The error table of the C interface (lib.rs).                            *)
(*                                                                         *)
(* Threads call store_err and fetch_err at will.  A step is what happens   *)
(* atomically: the fetch_add on ERROR_ID, or the statement that locks      *)
(* ERRORS, changes the map and drops the guard.  The isize counter is left *)
(* unbounded: it wraps only after 2^64 calls of next_error_id.             *)
(***************************************************************************)
Threads == {"t1", "t2"}
Messages == {"e1", "e2"}
FirstErrorId == 1

\* the ids fetch_err is called with: never issued (0), issued, and beyond
ErrorIds == 0..(FirstErrorId + MaxErrors)

\* HashMap::insert
MapInsert(map, k, v) ==
    [x \in (DOMAIN map) \cup {k} |-> IF x = k THEN v ELSE map[x]]

\* HashMap::remove: the value removed and the map left
MapRemove(map, k) ==
    IF k \in DOMAIN map
    THEN [result |-> Some(map[k]),
          map |-> [x \in (DOMAIN map) \ {k} |-> map[x]]]
    ELSE [result |-> None, map |-> map]

\* ERROR_ID.fetch_add(1, SeqCst): the value before, and the counter after
next_error_id(counter) == [id |-> counter, counter |-> counter + 1]

fetch_err_keeps_entry(map, error) ==
    IF error \in DOMAIN map
    THEN [result |-> Some(map[error]), map |-> map]
    ELSE [result |-> None, map |-> map]

\* fetch_err: the message (None for the null pointer), and the map left
fetch_err(map, error) == MapRemove(map, error)

NoFrame == [err |-> 0]

ErrIdle ==
    /\ ERROR_ID = FirstErrorId
    /\ ERRORS = <<>>
    /\ pc = [t \in Threads |-> "idle"]
    /\ frame = [t \in Threads |-> NoFrame]
    /\ issued = <<>> /\ stored = <<>> /\ fetches = <<>>

\* store_err(Err(e), error), up to let err = next_error_id(); the Ok arm of
\* the match touches nothing
StoreErrNextId(t) ==
    /\ pc[t] = "idle"
    /\ Len(issued) < MaxErrors
    /\ \E e \in Messages :
         LET n == next_error_id(ERROR_ID) IN
         /\ ERROR_ID' = n.counter
         /\ frame' = [frame EXCEPT ![t] = [e |-> e, err |-> n.id]]
         /\ issued' = Append(issued, n.id)
    /\ pc' = [pc EXCEPT ![t] = "insert"]
    /\ UNCHANGED <<ERRORS, stored, fetches, ordVars, dsVars, evVars, qrelVars>>

\* ERRORS.as_ref().lock().unwrap().insert(err, e.to_string())
StoreErrInsert(t) ==
    /\ pc[t] = "insert"
    /\ ERRORS' = MapInsert(ERRORS, frame[t].err, frame[t].e)
    /\ stored' = MapInsert(stored, frame[t].err, frame[t].e)
    /\ pc' = [pc EXCEPT ![t] = "return"]
    /\ UNCHANGED <<ERROR_ID, frame, issued, fetches,
                   ordVars, dsVars, evVars, qrelVars>>

\* *error = err; Err(())
StoreErrReturn(t) ==
    /\ pc[t] = "return"
    /\ pc' = [pc EXCEPT ![t] = "idle"]
    /\ frame' = [frame EXCEPT ![t] = NoFrame]
    /\ UNCHANGED <<ERROR_ID, ERRORS, issued, stored, fetches,
                   ordVars, dsVars, evVars, qrelVars>>

\* fetch_err(error), called with any isize; was_stored notes whether
\* store_err had inserted under the id before the call
FetchErr(t) ==
    /\ pc[t] = "idle"
    /\ Len(fetches) < MaxFetches
    /\ \E error \in ErrorIds :
         LET r == fetch_err(ERRORS, error) IN
         /\ ERRORS' = r.map
         /\ fetches' = Append(fetches, [id |-> error, result |-> r.result,
                                        was_stored |-> error \in DOMAIN stored])
    /\ UNCHANGED <<ERROR_ID, pc, frame, issued, stored,
                   ordVars, dsVars, evVars, qrelVars>>

StoreErr == \E t \in Threads : StoreErrNextId(t) \/ StoreErrInsert(t) \/ StoreErrReturn(t)
FetchErrAny == \E t \in Threads : FetchErr(t)


(***************************************************************************)
(* Specifications                                                          *)
(***************************************************************************)
OrdNext == Sort
InitOrd == OrdInit /\ DsIdle /\ EvIdle /\ QrelIdle /\ ErrIdle
SpecOrd == InitOrd /\ [][OrdNext]_vars

CmpNext == Compare
InitCmp == ComparedInit /\ DsIdle /\ EvIdle /\ QrelIdle /\ ErrIdle
SpecCmp == InitCmp /\ [][CmpNext]_vars

ShapeNext == TryNewAnyShape
InitShape == OrdIdle /\ DsInit /\ EvIdle /\ QrelIdle /\ ErrIdle
SpecShape == InitShape /\ [][ShapeNext]_vars

DsNext == TryNew \/ QueryId \/ InstancesByQuery \/ GetFeatureValue \/ Dotp
InitDataset == OrdIdle /\ DsInit /\ EvIdle /\ QrelIdle /\ ErrIdle
SpecDataset == InitDataset /\ [][DsNext]_vars

RRNext == ScoreRR
InitRR == OrdIdle /\ DsIdle /\ EvIdle /\ QrelIdle /\ ErrIdle
SpecRR == InitRR /\ [][RRNext]_vars

NDCGNext == NewNDCG \/ ScoreNDCG
InitNDCG == OrdIdle /\ DsIdle /\ NDCGInit /\ QrelIdle /\ ErrIdle
SpecNDCG == InitNDCG /\ [][NDCGNext]_vars

QrelNext == ReadFile
InitQrel == OrdIdle /\ DsIdle /\ EvIdle /\ QrelInit /\ ErrIdle
SpecQrel == InitQrel /\ [][QrelNext]_vars

ErrNext == StoreErr \/ FetchErrAny
InitErr == OrdIdle /\ DsIdle /\ EvIdle /\ QrelIdle /\ ErrIdle
SpecErr == InitErr /\ [][ErrNext]_vars

APNext == NewAP \/ ScoreAP
InitAP == OrdIdle /\ DsIdle /\ APInit /\ QrelIdle /\ ErrIdle
SpecAP == InitAP /\ [][APNext]_vars
(***************************************************************************)
(* The ranking order                                                       *)
(***************************************************************************)
Count(s, x) == Cardinality({i \in DOMAIN s : s[i] = x})

SortsBefore(a, b) ==
    \/ a.score > b.score
    \/ a.score = b.score /\ a.gain < b.gain
    \/ a.score = b.score /\ a.gain = b.gain /\ a.identifier < b.identifier

OrderingExample ==
    << [score |-> 3, gain |-> 1, identifier |-> 10],
       [score |-> 3, gain |-> 0, identifier |-> 11],
       [score |-> 1, gain |-> 0, identifier |-> 12] >>

\* C1: cmp orders two instances by score descending, then gain ascending, then
\* identifier ascending; it is a total order (antisymmetric, transitive, total,
\* Equal only for equal fields); the sort of the spec's example by it yields
\* the identifiers 11, 10, 12.
C1_CmpIsTotalOrder ==
    /\ \A i, j \in DOMAIN ranked :
         LET a == ranked[i]
             b == ranked[j]
         IN /\ (cmp(a, b) = "Less") <=> SortsBefore(a, b)
            /\ (cmp(a, b) = "Greater") <=> SortsBefore(b, a)
            /\ (cmp(a, b) = "Equal") <=> (a = b)
            /\ (cmp(a, b) = "Less") <=> (cmp(b, a) = "Greater")
    /\ \A i, j, k \in DOMAIN ranked :
         (cmp(ranked[i], ranked[j]) = "Less" /\ cmp(ranked[j], ranked[k]) = "Less")
             => cmp(ranked[i], ranked[k]) = "Less"
    /\ sorted # "unsorted" =>
         /\ Len(sorted) = Len(ranked)
         /\ \A i \in DOMAIN ranked : Count(sorted, ranked[i]) = Count(ranked, ranked[i])
         /\ \A i, j \in DOMAIN sorted : i < j => ~SortsBefore(sorted[j], sorted[i])
         /\ ranked = OrderingExample =>
                [i \in DOMAIN sorted |-> sorted[i].identifier] = <<11, 10, 12>>

C1_Witness ==
    /\ ranked = OrderingExample
    /\ sorted # "unsorted"
    /\ [i \in DOMAIN sorted |-> sorted[i].identifier] = <<11, 10, 12>>

\* C15: for every pair of RankedInstances a and b the derived PartialOrd
\* agrees with Ord: a.partial_cmp(b) = Some(a.cmp(b)), so a < b exactly when a
\* sorts before b.
C15_PartialOrdAgreesWithOrd ==
    compared # NoCompare =>
        /\ compared.partial_cmp = Some(compared.cmp)
        /\ compared.lt <=> (compared.cmp = "Less")

(***************************************************************************)
(* The dense dataset                                                       *)
(***************************************************************************)
ShapeMismatch(a) ==
    \/ ArrLen(a.ys) # a.num_instances
    \/ ArrLen(a.qids) # a.num_instances
    \/ ArrLen(a.xs) # a.num_instances * a.num_features

\* C2: try_new returns an error and no dataset whenever len(ys) # num_instances,
\* len(qids) # num_instances or len(xs) # num_instances * num_features, and
\* returns a dataset only when all three equalities hold.
C2_TryNewRejectsShapeMismatch ==
    outcome # "none" =>
        /\ ShapeMismatch(args) => (outcome = "Err" /\ ds = NoDataset)
        /\ outcome = "Ok" => ~ShapeMismatch(args)

\* C3: on every dataset try_new returned, query_id(i) of every i < num_instances
\* succeeds and returns the string of the instance's numeric query id.
C3_QueryIdSucceeds ==
    (outcome = "Ok" /\ op.name = "query_id") =>
        /\ op.result.tag = "Ok"
        /\ op.result.val = ds.qid_strings[ds.qids.data[op.instance + 1]]

InGroup(groups, k, i) == \E p \in DOMAIN groups[k] : groups[k][p] = i

\* C4: instances_by_query() partitions the instances: every i < num_instances is
\* in exactly one group, the one keyed by query_id(i), once, and every group is
\* in strictly ascending index order.
C4_InstancesByQueryPartitions ==
    (outcome = "Ok" /\ op.name = "instances_by_query") =>
        /\ op.result.tag = "Ok"
        /\ LET groups == op.result.val IN
           /\ \A i \in 0..(ds.num_instances - 1) :
                /\ query_id(ds, i).tag = "Ok"
                /\ \A k \in DOMAIN groups :
                     InGroup(groups, k, i) <=> (k = query_id(ds, i).val)
           /\ \A k \in DOMAIN groups :
                /\ \A p \in DOMAIN groups[k] : groups[k][p] \in 0..(ds.num_instances - 1)
                /\ \A p, q \in DOMAIN groups[k] : p < q => groups[k][p] < groups[k][q]

\* C5: get_feature_value(instance, feature) returns absent whenever
\* instance >= num_instances or feature >= num_features.
C5_FeatureValueAbsentOutOfRange ==
    ( /\ outcome = "Ok"
      /\ op.name = "get_feature_value"
      /\ (op.instance >= ds.num_instances \/ op.feature >= ds.num_features) )
        => op.result = Ok(None)

\* the sum of w[f] * xs[i * num_features + f] over f < min(len(w), num_features)
RECURSIVE RowDot(_, _, _, _)
RowDot(self, i, w, f) ==
    IF f >= Len(w) \/ f >= self.num_features THEN 0
    ELSE w[f + 1] * self.xs.data[i * self.num_features + f + 1]
         + RowDot(self, i, w, f + 1)

\* C13: on a float-backed dataset, dotp of instance i with weights w of any
\* length is the sum of w[f] * xs[i * num_features + f] over
\* f < min(len(w), num_features): no element of another instance's row
\* contributes.
C13_DotpStaysInRow ==
    (op.name = "dotp" /\ ds.xs.kind \in {"DenseF32", "DenseF64"})
        => op.result = Ok(RowDot(ds, op.instance, op.weights, 0))

(***************************************************************************)
(* The evaluators                                                          *)
(***************************************************************************)
\* the f64 value of a result is 0.0 / is 1.0 (a division by zero is neither)
IsZero(r) == r.kind = "zero" \/ (r.kind = "div" /\ r.den # 0 /\ r.num = 0)
IsOne(r) == r.kind = "div" /\ r.den # 0 /\ r.num = r.den

\* the query is a query of the dataset the evaluator was built from
Seen(qid) == \E i \in DOMAIN dataset.instances : dataset.instances[i].qid = qid

\* external judgments were supplied for the query
Judged(qid) == judgments.some /\ qid \in DOMAIN judgments.val

\* the dataset's rows of the query whose label is g
RowsWithGain(qid, g) ==
    {i \in DOMAIN dataset.instances :
        dataset.instances[i].qid = qid /\ dataset.instances[i].gain = g}

\* the 1-based ranks of the list's instances with gain > 0
RelevantRanks(list) == {p \in DOMAIN list : list[p].gain > 0}

Min(S) == CHOOSE x \in S : \A y \in S : x <= y

\* how often gain g occurs among the positive gains of the list
PositiveCount(list, g) ==
    IF g > 0 THEN Cardinality({p \in DOMAIN list : list[p].gain = g}) ELSE 0

\* the positive gains of the list never increase along it
PositivesDescend(list) ==
    \A p, q \in RelevantRanks(list) : p < q => list[p].gain >= list[q].gain

\* how often gain g occurs in the query's ideal gain vector
IdealCount(qid, g) ==
    IF Judged(qid) THEN Cardinality({d \in DOMAIN judgments.val[qid] :
                                        judgments.val[qid][d] = g})
    ELSE IF g > 0 THEN Cardinality(RowsWithGain(qid, g))
    ELSE 0

\* C6: NDCG::score returns exactly 0.0, dividing by nothing that is zero, for a
\* query with no external judgments and no positive gain in the dataset or in
\* the ranked list, seen at construction or not.
C6_NdcgZeroWithoutNormalizer ==
    ( /\ call.metric = "NDCG"
      /\ ~Judged(call.qid)
      /\ \A g \in Gains : g > 0 => RowsWithGain(call.qid, g) = {}
      /\ RelevantRanks(call.ranked_list) = {} )
        => /\ IsZero(call.result)
           /\ call.result.kind = "div" => call.result.den # 0

C6_Witness ==
    /\ call.metric = "NDCG"
    /\ Seen(call.qid)
    /\ ~Judged(call.qid)
    /\ \A g \in Gains : g > 0 => RowsWithGain(call.qid, g) = {}
    /\ Len(call.ranked_list) = MaxList
    /\ RelevantRanks(call.ranked_list) = {}
    /\ call.result = Zero

\* the num_relevant of a query: the judged relevant documents when judgments
\* are supplied for it, else the dataset's positive-gain rows of the query
NumRelevantOf(qid) ==
    IF Judged(qid)
    THEN Cardinality({d \in DOMAIN judgments.val[qid] : judgments.val[qid][d] > 0})
    ELSE Cardinality({i \in DOMAIN dataset.instances :
                         dataset.instances[i].qid = qid /\ dataset.instances[i].gain > 0})

\* C7: whenever the num_relevant of a query of the dataset is zero,
\* AveragePrecision::score returns 0.0 for every ranked list, those holding
\* positive-gain instances included.
C7_ApZeroWhenNoneRelevant ==
    ( /\ call.metric = "AP"
      /\ Seen(call.qid)
      /\ NumRelevantOf(call.qid) = 0 )
        => IsZero(call.result)

RECURSIVE SumOver(_, _)
SumOver(S, f) ==
    IF S = {} THEN 0
    ELSE LET x == CHOOSE y \in S : TRUE IN f[x] + SumOver(S \ {x}, f)

\* the sum, over the relevant ranks p, of (relevant at or before p) / p,
\* in units of 1 / ScoreScale
PrecisionSum(list) ==
    SumOver(RelevantRanks(list),
            [p \in RelevantRanks(list) |->
                Cardinality({q \in RelevantRanks(list) : q <= p}) * (ScoreScale \div p)])

C9_RrIsReciprocalOfFirstRelevant ==
    call.metric = "RR" =>
        IF RelevantRanks(call.ranked_list) = {} THEN call.result = Zero
        ELSE call.result = Div(1, Min(RelevantRanks(call.ranked_list)))

\* relevance flags false, false, true: 1 / 3
C9_Witness ==
    /\ call.metric = "RR"
    /\ Len(call.ranked_list) = 3
    /\ RelevantRanks(call.ranked_list) = {3}
    /\ call.result = Div(1, 3)

\* the list's positive gains, in ranked order, are the query's ideal gain
\* vector sorted descending, and that vector is not empty
MatchesIdeal(qid, list) ==
    /\ RelevantRanks(list) # {}
    /\ PositivesDescend(list)
    /\ Seen(qid) => \A g \in Gains : PositiveCount(list, g) = IdealCount(qid, g)

\* C10: at depth k >= 1, when the positive gains of the ranked list, in ranked
\* order, are the query's ideal gain vector sorted descending (not empty), the
\* actual DCG equals the ideal DCG and the score is exactly 1.0.
C10_NdcgOneOnIdealRanking ==
    ( /\ call.metric = "NDCG"
      /\ evaluator.depth >= 1
      /\ MatchesIdeal(call.qid, call.ranked_list) )
        => /\ IsOne(call.result)
           /\ call.result.den > 0
           /\ Seen(call.qid) => evaluator.ideal_gains[call.qid] = Some(call.result.num)

C10_Witness ==
    /\ call.metric = "NDCG"
    /\ evaluator.depth = MaxDepth
    /\ Seen(call.qid)
    /\ MatchesIdeal(call.qid, call.ranked_list)
    /\ Cardinality(RelevantRanks(call.ranked_list)) = 2
    /\ Len(call.ranked_list) = MaxList
    /\ IsOne(call.result)

\* C14: whenever NDCG::score divides the actual DCG by a normalizer, cached
\* or computed ad hoc, the normalizer is strictly positive, at every depth >= 0
\* and for every dataset and judgment set.
C14_NdcgNormalizerPositive ==
    (call.metric = "NDCG" /\ call.result.kind = "div") => call.result.den > 0

(***************************************************************************)
(* Judgment files                                                          *)
(***************************************************************************)
\* a line read_file must reject: fewer than four columns, or a relevance
\* column that is no number or is NaN
Malformed(row) == Len(row) < 4 \/ row[4] \in {"NaN", "x"}

FirstMalformed(n) ==
    /\ n \in 1..Len(lines)
    /\ Malformed(lines[n])
    /\ \A m \in 1..(n - 1) : ~Malformed(lines[m])

\* C11: read_file on a file whose n-th line is the first malformed one
\* (unparsable or NaN relevance, or fewer than four columns) returns an error
\* naming the path and the line number n; it does not panic and returns no
\* judgments.
C11_ReadFileReportsFirstMalformedLine ==
    read # NoRead =>
        \A n \in 1..Len(lines) :
            FirstMalformed(n) =>
                /\ read.tag = "Err"
                /\ read.msg.path = path
                /\ read.msg.line = n

\* C12: every gain in a judgment set read_file returned is non-negative (and
\* not NaN: a stored gain is a number).
C12_StoredGainsNonNegative ==
    read.tag = "Ok" =>
        \A q \in DOMAIN read.val : \A d \in DOMAIN read.val[q] :
            read.val[q][d] \in Int /\ read.val[q][d] >= 0

(***************************************************************************)
(* The error table                                                         *)
(***************************************************************************)
\* no id was issued twice
IdsDistinct ==
    \A i \in DOMAIN issued : \A j \in DOMAIN issued :
        i # j => issued[i] # issued[j]

\* the k-th call of fetch_err is the first one made with its id
FirstFetchOfId(k) == \A j \in 1..(k - 1) : fetches[j].id # fetches[k].id

\* the k-th call of fetch_err is the first one made with its id since
\* store_err inserted under that id
FirstFetchSinceStored(k) ==
    /\ fetches[k].was_stored
    /\ \A j \in 1..(k - 1) :
          fetches[j].id = fetches[k].id => ~fetches[j].was_stored

\* a store_err past its insert finds its own message under its id
OwnMessageStored ==
    \A t \in Threads :
        pc[t] = "return" =>
            frame[t].err \in DOMAIN stored /\ stored[frame[t].err] = frame[t].e

\* C16 (as stated): under every interleaving the stored errors' ids are
\* pairwise distinct, the first fetch_err of a stored error's id returns its
\* message, and every later fetch of that id, and any fetch of a never-issued
\* id, returns null.
C16_FirstFetchReturnsMessage ==
    /\ IdsDistinct
    /\ \A k \in DOMAIN fetches :
          LET f == fetches[k] IN
          /\ f.id \in DOMAIN stored =>
                f.result = IF FirstFetchOfId(k) THEN Some(stored[f.id]) ELSE None
          /\ (\A i \in DOMAIN issued : issued[i] # f.id) => f.result = None

\* C16 (amended): under every interleaving the stored errors' ids are pairwise
\* distinct, the first fetch_err of an id made after store_err inserted under
\* it returns that error's message, and every other fetch (a later one, one
\* made before the insert, one of a never-issued id) returns null.
C16_FetchOnceAfterStore ==
    /\ IdsDistinct
    /\ OwnMessageStored
    /\ \A k \in DOMAIN fetches :
          fetches[k].result =
              IF FirstFetchSinceStored(k) THEN Some(stored[fetches[k].id])
              ELSE None

\* both threads stored an error, and the first id was fetched before its
\* insert (null), after it (the message) and once more (null)
C16_Witness ==
    /\ Len(issued) = 2
    /\ DOMAIN stored = {issued[1], issued[2]}
    /\ Len(fetches) = 3
    /\ \A k \in 1..3 : fetches[k].id = issued[1]
    /\ ~fetches[1].was_stored /\ fetches[1].result = None
    /\ fetches[2].result = Some(stored[issued[1]])
    /\ fetches[3].was_stored /\ fetches[3].result = None
    /\ issued[2] \in DOMAIN ERRORS /\ issued[1] \notin DOMAIN ERRORS

====
